---------------------------- MODULE Spec2Model ----------------------------
(***************************************************************************)
(* Model of the DotBot asset-transfer agent                                *)
(* (src/agents/asset-transfer-agent/agent.py).                             *)
(*                                                                         *)
(* Python strings that the code inspects character by character (the      *)
(* message, its words, the amount, addresses) are sequences of             *)
(* one-character strings.  Strings the code only passes around or compares *)
(* as a whole (network names, asset symbols, fixed texts) are TLA+ strings.*)
(* Optional values are sequences of length at most one: None is << >>.     *)
(*                                                                         *)
(* The module only loads when the uagents import succeeds (the dataclasses *)
(* name Model as their base at import time), so AGENTVERSE_MODE is true in *)
(* every state the program can be in; SUBSTRATE_AVAILABLE may be either.   *)
(* The dataclasses are modelled with the fields and defaults they declare. *)
(***************************************************************************)
EXTENDS Integers, Sequences, FiniteSets, TLC

None == << >>
Some(x) == << x >>

Min(a, b) == IF a < b THEN a ELSE b

(***************************************************************************)
(* Characters and the str methods the code uses.                           *)
(***************************************************************************)
UpperChars == << "A","B","C","D","E","F","G","H","I","J","K","L","M",
                 "N","O","P","Q","R","S","T","U","V","W","X","Y","Z" >>
LowerChars == << "a","b","c","d","e","f","g","h","i","j","k","l","m",
                 "n","o","p","q","r","s","t","u","v","w","x","y","z" >>
DigitChars == << "0","1","2","3","4","5","6","7","8","9" >>
Whitespace == { " ", "\t", "\n" }

UpperSet == { UpperChars[i] : i \in 1..26 }
DigitSet == { DigitChars[i] : i \in 1..10 }

\* str.lower() and str.upper(), one character
LowerOf == [ c \in UpperSet |-> LowerChars[CHOOSE i \in 1..26 : UpperChars[i] = c] ]
UpperOf == [ c \in { LowerChars[i] : i \in 1..26 } |->
               UpperChars[CHOOSE i \in 1..26 : LowerChars[i] = c] ]
DigitOf == [ c \in DigitSet |-> (CHOOSE i \in 1..10 : DigitChars[i] = c) - 1 ]

\* a variant of lower that leaves the case as it is
lower_identity(s) == s

\* str.lower()
lower(s) == [ i \in 1..Len(s) |-> IF s[i] \in DOMAIN LowerOf THEN LowerOf[s[i]] ELSE s[i] ]
\* str.upper()
upper(s) == [ i \in 1..Len(s) |-> IF s[i] \in DOMAIN UpperOf THEN UpperOf[s[i]] ELSE s[i] ]

\* str.replace(c, ''): every occurrence of the character c removed
remove(s, c) == SelectSeq(s, LAMBDA x : x # c)

\* str.isdigit(): non-empty and every character a digit
isdigit(s) == Len(s) > 0 /\ \A i \in 1..Len(s) : s[i] \in DigitSet

\* str.startswith(p)
startswith(s, p) == Len(s) >= Len(p) /\ SubSeq(s, 1, Len(p)) = p

\* the operator `sub in s` on strings
contains(s, sub) ==
    \E i \in 1..(Len(s) - Len(sub) + 1) : SubSeq(s, i, i + Len(sub) - 1) = sub

\* str.split(): the maximal runs of non-whitespace characters, in order
word_starts(s) ==
    { i \in 1..Len(s) : s[i] \notin Whitespace /\ (i = 1 \/ s[i - 1] \in Whitespace) }
word_end(s, i) ==
    CHOOSE j \in i..Len(s) :
        /\ \A k \in i..j : s[k] \notin Whitespace
        /\ (j = Len(s) \/ s[j + 1] \in Whitespace)
split(s) ==
    LET words(starts) ==
            [ n \in 1..Cardinality(starts) |->
                LET i == CHOOSE i \in starts : Cardinality({ j \in starts : j <= i }) = n
                IN  SubSeq(s, i, word_end(s, i)) ]
    IN  words(word_starts(s))

\* " ".join(words)
RECURSIVE join(_)
join(words) ==
    IF words = << >> THEN << >>
    ELSE IF Len(words) = 1 THEN words[1]
         ELSE words[1] \o << " " >> \o join(Tail(words))

(***************************************************************************)
(* Addresses.                                                              *)
(***************************************************************************)
ALICE == <<"5","G","r","w","v","a","E","F","5","z","X","b","2","6","F","z","9","r","c","Q","p","D","W","S","5","7","C","t","E","R","H","p","N","e","h","X","C","P","c","N","o","H","G","K","u","t","Q","Y">>
BOB == <<"5","F","H","n","e","W","4","6","x","G","X","g","s","5","m","U","i","v","e","U","4","s","b","T","y","G","B","z","m","s","t","U","s","p","Z","C","9","2","U","h","j","J","M","6","9","4","t","y">>
CHARLIE == <<"5","F","L","S","i","g","C","9","H","G","R","K","V","h","B","9","F","i","E","o","4","Y","3","k","o","P","s","N","m","B","m","L","J","b","p","X","g","2","m","p","1","h","X","c","S","5","9","Y">>
\* the account of ALICE encoded for polkadot (format 0) and kusama (format 2)
ALICE_POLKADOT == <<"1","5","o","F","4","u","V","J","w","m","o","4","T","d","G","W","7","V","f","Q","x","N","L","a","v","j","C","X","v","i","q","x","T","9","S","1","M","g","b","j","M","N","H","r","6","S","p","5">>
ALICE_KUSAMA == <<"H","N","Z","a","t","a","7","i","M","Y","W","m","k","5","R","v","Z","R","T","i","A","s","S","D","h","V","8","3","6","6","z","q","2","Y","G","b","3","t","L","H","5","U","p","f","7","4","F">>
\* more than 40 characters and a leading '5', but no SS58 encoding of anything
\* ('I' is not a base-58 digit)
JUNK5 == << "5" >> \o [ i \in 1..42 |-> "I" ]
\* a leading '5' but too short
SHORT5 == << "5","G","r","w","v","a" >>

\* the aliases of parse_transfer_request, in the order the dict is iterated
aliases == << [alias |-> <<"a","l","i","c","e">>, address |-> ALICE],
              [alias |-> <<"b","o","b">>, address |-> BOB],
              [alias |-> <<"c","h","a","r","l","i","e">>, address |-> CHARLIE] >>

(***************************************************************************)
(* Results of calls that may raise, and the two dataclasses.               *)
(***************************************************************************)
Return(v) == [raised |-> FALSE, value |-> v]
Raise(type, text) == [raised |-> TRUE, exc |-> [type |-> type, text |-> text]]

\* the __init__ a dataclass generates: a TypeError when a field without a
\* default is not given, otherwise the fields with the defaults filled in
dataclass_init(required, defaults, kwargs) ==
    IF required \subseteq DOMAIN kwargs
    THEN Return([ f \in required \cup DOMAIN defaults |->
                    IF f \in DOMAIN kwargs THEN kwargs[f] ELSE defaults[f] ])
    ELSE Raise("TypeError", "__init__() missing required positional argument")

TransferRequest(kwargs) ==
    dataclass_init({"amount", "recipient"},
                   [asset |-> "DOT", network |-> "polkadot",
                    sender_address |-> None, message_id |-> None],
                   kwargs)

TransferResponseRequired == {"success", "message"}

TransferResponse(kwargs) ==
    dataclass_init(TransferResponseRequired,
                   [transaction_data |-> None, error |-> None,
                    requires_signature |-> FALSE],
                   kwargs)

(***************************************************************************)
(* parse_transfer_request                                                  *)
(***************************************************************************)
\* the test of line 111 on one word
is_amount_word(word) == isdigit(remove(remove(word, "."), ","))

\* a variant of extract_amount that gives up after the first word
extract_amount_first_word(words) ==
    IF words = << >> THEN None
    ELSE IF is_amount_word(Head(words)) THEN Some(remove(Head(words), ","))
         ELSE None

\* lines 108-115: the first word passing the test, its commas removed
RECURSIVE extract_amount(_)
extract_amount(words) ==
    IF words = << >> THEN None
    ELSE IF is_amount_word(Head(words)) THEN Some(remove(Head(words), ","))
         ELSE extract_amount(Tail(words))

\* the test of line 120 on one word
is_address_word(word) == Len(word) > 40 /\ startswith(word, << "5" >>)

\* lines 118-122: the first address-like word
RECURSIVE extract_address(_)
extract_address(words) ==
    IF words = << >> THEN None
    ELSE IF is_address_word(Head(words)) THEN Some(Head(words))
         ELSE extract_address(Tail(words))

\* a variant of resolve_alias in which a literal address found before is kept
resolve_alias_keeps_literal(message_lower, i, recipient) ==
    IF recipient # None THEN recipient
    ELSE IF \E k \in i..Len(aliases) : contains(message_lower, aliases[k].alias)
         THEN Some(aliases[CHOOSE k \in i..Len(aliases) :
                              /\ contains(message_lower, aliases[k].alias)
                              /\ \A j \in i..(k - 1) :
                                    ~contains(message_lower, aliases[j].alias)].address)
         ELSE recipient

\* lines 131-134: the first alias (in dict order) found in the lowered
\* message replaces the recipient found so far
RECURSIVE resolve_alias(_, _, _)
resolve_alias(message_lower, i, recipient) ==
    IF i > Len(aliases) THEN recipient
    ELSE IF contains(message_lower, aliases[i].alias) THEN Some(aliases[i].address)
         ELSE resolve_alias(message_lower, i + 1, recipient)

\* lines 137-141
extract_asset(message_lower) ==
    IF contains(message_lower, <<"k","s","m">>)
       \/ contains(message_lower, <<"k","u","s","a","m","a">>) THEN "KSM"
    ELSE IF contains(message_lower, <<"w","n","d">>)
            \/ contains(message_lower, <<"w","e","s","t","e","n","d">>) THEN "WND"
    ELSE "DOT"

\* lines 144-145
network_map(asset) ==
    CASE asset = "DOT" -> "polkadot"
      [] asset = "KSM" -> "kusama"
      [] asset = "WND" -> "westend"
      [] OTHER -> "polkadot"

\* the truth value of an Optional[str]
truthy(opt) == opt # None /\ opt[1] # << >>

\* an Optional[TransferRequest]; the constructor gets both required fields
parse_transfer_request(message) ==
    LET request(amount, recipient, asset) ==
            IF truthy(amount) /\ truthy(recipient)
            THEN Some(TransferRequest([amount |-> amount[1], recipient |-> recipient[1],
                                       asset |-> asset, network |-> network_map(asset)]).value)
            ELSE None
        from(message_lower, words) ==
            request(extract_amount(words),
                    resolve_alias(message_lower, 1, extract_address(words)),
                    extract_asset(message_lower))
    IN  from(lower(message), split(message))

(***************************************************************************)
(* int(float(request.amount) * (10 ** decimals)), line 169.                *)
(*                                                                         *)
(* The values do not fit a 32-bit integer of TLC, so naturals are         *)
(* sequences of limbs, least significant first, in base 10^4, without      *)
(* leading zero limbs (0 is << >>).  A float is binary64: a significand    *)
(* m <= 2^53 and an exponent e, standing for m * 2^e, rounded to nearest,  *)
(* ties to even.  Amounts stay far from the subnormal and overflow ranges. *)
(***************************************************************************)
Base == 10000
ChunkBits == 13
Chunk == 2 ^ ChunkBits

RECURSIVE BigNorm(_)
BigNorm(x) ==
    IF x = << >> THEN << >>
    ELSE IF x[Len(x)] = 0 THEN BigNorm(SubSeq(x, 1, Len(x) - 1))
         ELSE x

\* x * k + carry, for 0 <= carry, k < Base
RECURSIVE BigMulAddFrom(_, _, _, _)
BigMulAddFrom(x, k, i, carry) ==
    IF i > Len(x) THEN (IF carry = 0 THEN << >> ELSE << carry >>)
    ELSE LET t == x[i] * k + carry
         IN  << t % Base >> \o BigMulAddFrom(x, k, i + 1, t \div Base)
BigMulAdd(x, k, c) == BigNorm(BigMulAddFrom(x, k, 1, c))
BigMulSmall(x, k) == BigMulAdd(x, k, 0)

\* quotient and remainder of x by k, for 0 < k < Base
RECURSIVE BigDivSmallFrom(_, _, _, _)
BigDivSmallFrom(x, k, i, rem) ==
    IF i = 0 THEN [q |-> << >>, r |-> rem]
    ELSE LET t == rem * Base + x[i]
             rest == BigDivSmallFrom(x, k, i - 1, t % k)
         IN  [q |-> Append(rest.q, t \div k), r |-> rest.r]
BigDivSmall(x, k) ==
    LET normed(d) == [q |-> BigNorm(d.q), r |-> d.r]
    IN  normed(BigDivSmallFrom(x, k, Len(x), 0))

\* x < y
RECURSIVE BigLessFrom(_, _, _)
BigLessFrom(x, y, i) ==
    IF i = 0 THEN FALSE
    ELSE IF x[i] # y[i] THEN x[i] < y[i]
         ELSE BigLessFrom(x, y, i - 1)
BigLess(x, y) ==
    IF Len(x) # Len(y) THEN Len(x) < Len(y) ELSE BigLessFrom(x, y, Len(x))

BigOdd(x) == x # << >> /\ x[1] % 2 = 1
BigSucc(x) ==
    LET RECURSIVE inc(_)
        inc(i) == IF i > Len(x) THEN << 1 >>
                  ELSE IF x[i] + 1 < Base
                       THEN << x[i] + 1 >> \o SubSeq(x, i + 1, Len(x))
                       ELSE << 0 >> \o inc(i + 1)
    IN  inc(1)

\* x * 2^n and x * 10^n
RECURSIVE BigMulPow2(_, _)
BigMulPow2(x, n) ==
    IF n = 0 THEN x
    ELSE IF n >= ChunkBits THEN BigMulPow2(BigMulSmall(x, Chunk), n - ChunkBits)
         ELSE BigMulSmall(x, 2 ^ n)
BigMulPow10(x, n) ==
    IF x = << >> THEN << >>
    ELSE [ i \in 1..(n \div 4) |-> 0 ] \o BigMulSmall(x, 10 ^ (n % 4))

\* floor(x / 2^n), floor(x / 10^n), and whether anything was cut off
RECURSIVE BigDivPow2(_, _)
BigDivPow2(x, n) ==
    LET more(d, rest) == [q |-> rest.q, sticky |-> rest.sticky \/ d.r # 0]
        next(d) == more(d, BigDivPow2(d.q, n - Min(n, ChunkBits)))
    IN  IF n = 0 THEN [q |-> x, sticky |-> FALSE]
        ELSE next(BigDivSmall(x, 2 ^ Min(n, ChunkBits)))
BigDivPow10(x, n) ==
    LET result(cut, d) == [q |-> d.q, sticky |-> d.r # 0 \/ \E i \in 1..cut : x[i] # 0]
        from(cut) == result(cut, BigDivSmall(SubSeq(x, cut + 1, Len(x)), 10 ^ (n % 4)))
    IN  from(Min(n \div 4, Len(x)))

\* the natural a string of decimal digits writes
RECURSIVE BigOfDigits(_, _)
BigOfDigits(digits, acc) ==
    IF digits = << >> THEN acc
    ELSE BigOfDigits(Tail(digits), BigMulAdd(acc, 10, DigitOf[Head(digits)]))

Two53 == BigMulPow2(<< 1 >>, 53)
Two54 == BigMulPow2(<< 1 >>, 54)

\* q holds one bit more than the significand, sticky says whether lower
\* bits were cut off: the significand rounded to nearest, ties to even
round_half_even(q, sticky) ==
    LET rounded(d) == IF d.r = 1 /\ (sticky \/ BigOdd(d.q)) THEN BigSucc(d.q) ELSE d.q
    IN  rounded(BigDivSmall(q, 2))

\* the least k with a * 2^k >= low, and a * 2^k
RECURSIVE scale_up(_, _, _)
scale_up(a, low, k) ==
    LET try(far) == IF BigLess(far, low) THEN scale_up(far, low, k + ChunkBits)
                    ELSE scale_up(BigMulSmall(a, 2), low, k + 1)
    IN  IF BigLess(a, low) THEN try(BigMulSmall(a, Chunk)) ELSE [a |-> a, k |-> k]

\* a halved until it is below high; sticky tells whether a one was cut off
RECURSIVE scale_down(_, _, _, _)
scale_down(a, high, k, sticky) ==
    LET halved(step, d) == scale_down(d.q, high, k + step, sticky \/ d.r # 0)
        by(step) == halved(step, BigDivSmall(a, 2 ^ step))
    IN  IF BigLess(a, high) THEN [a |-> a, k |-> k, sticky |-> sticky]
        ELSE by(IF BigLess(a, BigMulSmall(high, Chunk)) THEN 1 ELSE ChunkBits)

\* the binary64 nearest to n / 10^f
float_of_decimal(n, f) ==
    LET rounded(down, up, d) ==
            [m |-> round_half_even(d.q, d.sticky \/ down.sticky),
             e |-> 1 + down.k - up.k]
        divided(down, up) == rounded(down, up, BigDivPow10(up.a, f))
        raised(low, down) == divided(down, scale_up(down.a, low, 0))
        lowered(low) == raised(low, scale_down(n, BigMulSmall(low, 2), 0, FALSE))
    IN  IF n = << >> THEN [m |-> << >>, e |-> 0]
        ELSE lowered(BigMulPow10(Two53, f))

\* the binary64 product of x and the float 10^d (exact, as 10^d < 2^53 for
\* the decimals of the networks table)
float_mul_pow10(x, d) ==
    LET rounded(near) == [m |-> round_half_even(near.a, near.sticky),
                          e |-> x.e + near.k + 1]
        product(p) == IF BigLess(p, Two53) THEN [m |-> p, e |-> x.e]
                      ELSE rounded(scale_down(p, Two54, 0, FALSE))
    IN  product(BigMulPow10(x.m, d))

\* int(x) of a non-negative float: the fraction is cut off
float_trunc(x) ==
    IF x.e >= 0 THEN BigMulPow2(x.m, x.e) ELSE BigDivPow2(x.m, 0 - x.e).q

(***************************************************************************)
(* float(s) on the strings that occur here: an optional sign, then either  *)
(* digits with at most one point, or nan / inf / infinity in any case.     *)
(* (No input of the model holds an exponent, an underscore or blanks.)     *)
(***************************************************************************)
Text(fmt, args) == [fmt |-> fmt, args |-> args]

has_sign(s) == s # << >> /\ s[1] \in { "+", "-" }
unsigned(s) == IF has_sign(s) THEN Tail(s) ELSE s
point_at(s) == IF \E i \in 1..Len(s) : s[i] = "."
               THEN CHOOSE i \in 1..Len(s) : s[i] = "." /\ \A j \in 1..(i - 1) : s[j] # "."
               ELSE Len(s) + 1

python_float(s) ==
    LET neg == has_sign(s) /\ s[1] = "-"
        number(body, digits) ==
            IF isdigit(digits) /\ Len(body) - Len(digits) <= 1
            THEN Return([kind |-> "finite", neg |-> neg,
                         val |-> float_of_decimal(BigNorm(BigOfDigits(digits, << >>)),
                                                  Len(body) - Min(point_at(body), Len(body)))])
            ELSE Raise("ValueError", "could not convert string to float")
        parse(body, word) ==
            IF word = <<"n","a","n">> THEN Return([kind |-> "nan", neg |-> neg])
            ELSE IF word \in { <<"i","n","f">>, <<"i","n","f","i","n","i","t","y">> }
                 THEN Return([kind |-> "inf", neg |-> neg])
            ELSE number(body, remove(body, "."))
        of(body) == parse(body, lower(body))
    IN  of(unsigned(s))

\* x * (10 ** decimals)
python_float_times_pow10(x, decimals) ==
    IF x.kind = "finite"
    THEN [kind |-> "finite", neg |-> x.neg, val |-> float_mul_pow10(x.val, decimals)]
    ELSE x

\* int(x): towards zero; an integer is a sign and a magnitude
python_int(x) ==
    LET signed(mag) == Return([neg |-> x.neg /\ mag # << >>, mag |-> mag])
    IN  IF x.kind = "nan" THEN Raise("ValueError", "cannot convert float NaN to integer")
        ELSE IF x.kind = "inf"
             THEN Raise("OverflowError", "cannot convert float infinity to integer")
        ELSE signed(float_trunc(x.val))

\* line 169
amount_to_planck(amount, decimals) ==
    LET converted(x) == IF x.raised THEN x
                        ELSE python_int(python_float_times_pow10(x.value, decimals))
    IN  converted(python_float(amount))

(***************************************************************************)
(* The agent.                                                              *)
(***************************************************************************)
VARIABLES
    SUBSTRATE_AVAILABLE,   \* whether the substrateinterface import succeeded
    networks,              \* self.networks
    substrate_interfaces,  \* self.substrate_interfaces: the networks with a client handle
    pc,                    \* "created", then "ready" once initialize has run
    call                   \* the call just completed and not yet taken by its caller, or None

vars == << SUBSTRATE_AVAILABLE, networks, substrate_interfaces, pc, call >>

agent_id == "asset-transfer-agent"

\* lines 60-79 (the rpc_url is only handed to the client constructor)
NetworkTable ==
    [ polkadot |-> [ss58_format |-> 0, decimals |-> 10, symbol |-> "DOT"],
      kusama   |-> [ss58_format |-> 2, decimals |-> 12, symbol |-> "KSM"],
      westend  |-> [ss58_format |-> 42, decimals |-> 12, symbol |-> "WND"] ]

(***************************************************************************)
(* ss58_decode of the chain library, on the addresses that occur here: an  *)
(* address starting with 0x is returned as it is; otherwise the address    *)
(* must be a base-58 string with a valid checksum, and its format must be  *)
(* the requested one.  The encodings are facts about the addresses.        *)
(***************************************************************************)
SS58Formats ==
    << [address |-> ALICE, format |-> 42], [address |-> BOB, format |-> 42],
       [address |-> CHARLIE, format |-> 42],
       [address |-> ALICE_POLKADOT, format |-> 0],
       [address |-> ALICE_KUSAMA, format |-> 2] >>

ss58_decode(address, valid_ss58_format) ==
    LET known == { i \in 1..Len(SS58Formats) : SS58Formats[i].address = address }
    IN  IF startswith(address, << "0", "x" >>) THEN Return(address)
        ELSE IF known = { } THEN Raise("ValueError", "Invalid address")
        ELSE IF \E i \in known : SS58Formats[i].format = valid_ss58_format
             THEN Return(address)
             ELSE Raise("ValueError", "Invalid SS58 format")

\* lines 238-249
validate_address(address, ss58_format) ==
    IF SUBSTRATE_AVAILABLE
    THEN ~ss58_decode(address, ss58_format).raised
    ELSE Len(address) > 40 /\ startswith(address, << "5" >>)

(***************************************************************************)
(* _get_balance.  query is what interface.query does when it is called:    *)
(* it raises, returns nothing, returns a result without the expected keys, *)
(* or returns the account's balances.                                      *)
(***************************************************************************)
QueryOutcomes ==
    { [kind |-> "raises", free |-> 0, reserved |-> 0, frozen |-> 0],
      [kind |-> "nothing", free |-> 0, reserved |-> 0, frozen |-> 0],
      [kind |-> "malformed", free |-> 0, reserved |-> 0, frozen |-> 0],
      [kind |-> "account", free |-> 7, reserved |-> 2, frozen |-> 1] }

\* x / (10 ** decimals), kept as the two operands
scaled(x, decimals) == [planck |-> x, decimals |-> decimals]

\* lines 209-236: an Optional[dict]
get_balance(address, network, query) ==
    IF ~SUBSTRATE_AVAILABLE \/ network \notin substrate_interfaces THEN None
    ELSE IF query.kind # "account" THEN None
    ELSE LET decimals == networks[network].decimals
         IN  Some([free |-> scaled(query.free, decimals),
                   reserved |-> scaled(query.reserved, decimals),
                   frozen |-> scaled(query.frozen, decimals),
                   total |-> scaled(query.free + query.reserved, decimals),
                   symbol |-> networks[network].symbol])

\* whether _get_balance reaches interface.query
queries_chain(request) ==
    /\ truthy(request.sender_address)
    /\ SUBSTRATE_AVAILABLE
    /\ request.network \in substrate_interfaces

(***************************************************************************)
(* prepare_transfer                                                        *)
(***************************************************************************)
\* lines 179-190
transaction_data(request, amount_planck) ==
    [ pallet |-> "Balances",
      call |-> "transfer",
      args |-> [dest |-> [Id |-> request.recipient], value |-> amount_planck],
      network |-> request.network,
      amount_display |-> Text("{} {}", << request.amount, request.asset >>),
      recipient_display |-> request.recipient,
      estimated_fee |-> "0.01 DOT" ]

\* lines 162-165
unsupported_network_response(request) ==
    TransferResponse([success |-> FALSE,
                      error |-> Some(Text("Unsupported network: {}", << request.network >>))])

\* lines 173-176
invalid_recipient_response ==
    TransferResponse([success |-> FALSE,
                      error |-> Some(Text("Invalid recipient address format", << >>))])

\* a variant of prepared_response that leaves requires_signature at its default
prepared_response_unsigned(request, amount_planck) ==
    TransferResponse([success |-> TRUE,
                      message |-> Text("Transfer prepared: {} {} to {}...",
                                       << request.amount, request.asset,
                                          SubSeq(request.recipient, 1,
                                                 Min(8, Len(request.recipient))) >>),
                      transaction_data |-> Some(transaction_data(request, amount_planck))])

\* lines 195-200
prepared_response(request, amount_planck) ==
    TransferResponse([success |-> TRUE,
                      message |-> Text("Transfer prepared: {} {} to {}...",
                                       << request.amount, request.asset,
                                          SubSeq(request.recipient, 1,
                                                 Min(8, Len(request.recipient))) >>),
                      transaction_data |-> Some(transaction_data(request, amount_planck)),
                      requires_signature |-> TRUE])

\* lines 204-207, in the except clause
failed_response(exc) ==
    TransferResponse([success |-> FALSE,
                      error |-> Some(Text("Failed to prepare transfer: {}", << exc.text >>))])

\* line 193
balance_info(request, query) ==
    IF truthy(request.sender_address)
    THEN get_balance(request.sender_address[1], request.network, query)
    ELSE None

\* a variant of prepare_transfer_body in which a sender whose balance is
\* unknown makes the preparation fail
prepare_transfer_body_needs_balance(request, query) ==
    LET with(amount_planck, network_config) ==
            IF amount_planck.raised THEN amount_planck @@ [balance_info |-> None]
            ELSE IF ~validate_address(request.recipient, network_config.ss58_format)
                 THEN invalid_recipient_response @@ [balance_info |-> None]
            ELSE IF truthy(request.sender_address) /\ balance_info(request, query) = None
                 THEN Raise("RuntimeError", "balance unavailable") @@ [balance_info |-> None]
            ELSE prepared_response(request, amount_planck.value)
                 @@ [balance_info |-> balance_info(request, query)]
        for(network_config) ==
            with(amount_to_planck(request.amount, network_config.decimals), network_config)
    IN  IF request.network \notin DOMAIN networks
        THEN unsupported_network_response(request) @@ [balance_info |-> None]
        ELSE for(networks[request.network])

\* lines 160-200, the body of the try: the response returned or the
\* exception raised, and the balance read on the way (None when not read)
prepare_transfer_body(request, query) ==
    LET with(amount_planck, network_config) ==
            IF amount_planck.raised THEN amount_planck @@ [balance_info |-> None]
            ELSE IF ~validate_address(request.recipient, network_config.ss58_format)
                 THEN invalid_recipient_response @@ [balance_info |-> None]
            ELSE prepared_response(request, amount_planck.value)
                 @@ [balance_info |-> balance_info(request, query)]
        for(network_config) ==
            with(amount_to_planck(request.amount, network_config.decimals), network_config)
    IN  IF request.network \notin DOMAIN networks
        THEN unsupported_network_response(request) @@ [balance_info |-> None]
        ELSE for(networks[request.network])

\* lines 157-207: what the try returns, or what the except clause returns
\* or raises in turn
prepare_transfer(request, query) ==
    LET caught(body) ==
            IF body.raised
            THEN failed_response(body.exc) @@ [balance_info |-> body.balance_info]
            ELSE body
    IN  caught(prepare_transfer_body(request, query))

(***************************************************************************)
(* process_message                                                         *)
(***************************************************************************)
\* lines 258-266
unparseable_envelope ==
    [ success |-> FALSE,
      message |-> Text("I couldn't understand the transfer request. Please specify amount, recipient, and asset type.", << >>),
      suggestions |-> << "Send 5 DOT to Alice",
                         "Transfer 10 DOT to 5GrwvaEF5zXb26Fz9rcQpDWS57CtERHpNehXCPcNoHGKutQY",
                         "Send 2.5 KSM to Bob" >> ]

\* lines 275-282
response_envelope(response) ==
    [ success |-> response.success,
      message |-> response.message,
      transaction_data |-> response.transaction_data,
      error |-> response.error,
      requires_signature |-> response.requires_signature,
      agent_id |-> agent_id ]

\* a variant of exception_envelope that drops the text of the exception
exception_envelope_anonymous(exc) ==
    [ success |-> FALSE,
      message |-> Text("I encountered an error processing your request. Please try again.", << >>),
      error |-> Some(Text("internal error", << >>)),
      agent_id |-> agent_id ]

\* lines 284-291
exception_envelope(exc) ==
    [ success |-> FALSE,
      message |-> Text("I encountered an error processing your request. Please try again.", << >>),
      error |-> Some(Text(exc.text, << >>)),
      agent_id |-> agent_id ]

\* A context is None, a dict (whose sender_address may be missing), or a
\* value that is no dict, on which context.get raises.
NoContext == [kind |-> "none", sender_address |-> None]
DictContext(sender) == [kind |-> "dict", sender_address |-> sender]
OtherContext == [kind |-> "other", sender_address |-> None]

\* lines 268-270: the request with the sender of the context, or the
\* AttributeError of context.get
merge_sender(request, context) ==
    IF context.kind = "other"
    THEN Raise("AttributeError", "object has no attribute 'get'")
    ELSE IF context.kind = "dict" /\ truthy(context.sender_address)
         THEN Return([request EXCEPT !.sender_address = context.sender_address])
         ELSE Return(request)

\* lines 251-291: the envelope returned, with the request parsed and the
\* outcome of prepare_transfer when it was called (None otherwise)
process_message(message, context, query) ==
    LET shaped(merged, prepared) ==
            IF prepared.raised
            THEN [envelope |-> exception_envelope(prepared.exc),
                  request |-> Some(merged.value), prepared |-> Some(prepared)]
            ELSE [envelope |-> response_envelope(prepared.value),
                  request |-> Some(merged.value), prepared |-> Some(prepared)]
        prepare(parsed, merged) ==
            IF merged.raised
            THEN [envelope |-> exception_envelope(merged.exc),
                  request |-> parsed, prepared |-> None]
            ELSE shaped(merged, prepare_transfer(merged.value, query))
        handle(parsed) ==
            IF parsed = None
            THEN [envelope |-> unparseable_envelope, request |-> None, prepared |-> None]
            ELSE prepare(parsed, merge_sender(parsed[1], context))
    IN  handle(parse_transfer_request(message))

(***************************************************************************)
(* Inputs.  A message is a verb, an amount, an asset, "to" and a           *)
(* recipient, each of them possibly missing, followed by up to MaxExtra    *)
(* further words, written as it is, in lower case or in upper case.        *)
(***************************************************************************)
MaxExtra == 1

Verbs == { << >>, << <<"S","e","n","d">> >> }
AmountWords == { << >>, << <<"5">> >>, << <<"2",".","5">> >>, << <<"0",".","4","1">> >>,
                 << <<"1",",","0","0","0">> >>, << <<"1",".","2",".","3">> >> }
AssetWords == { << >>, << <<"D","O","T">> >>, << <<"K","S","M">> >>, << <<"W","N","D">> >>,
                << <<"K","u","s","a","m","a">> >> }
RecipientWords ==
    { << >>,
      << <<"t","o">>, <<"A","l","i","c","e">> >>,
      << <<"t","o">>, <<"B","o","b">> >>,
      << <<"t","o">>, <<"C","h","a","r","l","i","e">> >>,
      << <<"t","o">>, ALICE >>,
      << <<"t","o">>, ALICE_POLKADOT >>,
      << <<"t","o">>, JUNK5 >>,
      << <<"t","o">>, SHORT5 >> }
ExtraWords == { <<"1","2">>, <<"b","o","b">>, CHARLIE }
AgentExtraWords == { <<"1","2">>, <<"b","o","b">> }
Letterings == { "as written", "lower", "upper" }

RECURSIVE SeqsUpTo(_, _)
SeqsUpTo(S, n) ==
    IF n = 0 THEN { << >> }
    ELSE LET shorter == SeqsUpTo(S, n - 1)
         IN  shorter \cup { Append(q, x) : q \in { r \in shorter : Len(r) = n - 1 }, x \in S }

lettered(m, lettering) ==
    CASE lettering = "lower" -> lower(m)
      [] lettering = "upper" -> upper(m)
      [] OTHER -> m

MessagesOf(verbs, extras, letterings) ==
    { lettered(join(v \o a \o s \o r \o x), l) :
        v \in verbs, a \in AmountWords, s \in AssetWords, r \in RecipientWords,
        x \in SeqsUpTo(extras, MaxExtra), l \in letterings }

\* the messages given to the parser alone, and those given to the agent
Messages == MessagesOf(Verbs, ExtraWords, Letterings)
AgentMessages == MessagesOf({ << <<"S","e","n","d">> >> }, AgentExtraWords, { "as written" })

Contexts ==
    { NoContext, DictContext(None), DictContext(Some(ALICE_POLKADOT)), OtherContext }

\* Requests a peer may send to handle_transfer_request: any strings.
HEX == <<"0","x","0","0">>
RequestAmounts == { <<"5">>, <<"0",".","4","1">>, <<"-","5">>, <<"a","b","c">>, <<"n","a","n">>, <<"1",".","2",".","3">> }
RequestRecipients == { ALICE, ALICE_POLKADOT, ALICE_KUSAMA, JUNK5, SHORT5, HEX }
RequestNetworks == { "polkadot", "kusama", "westend", "moonbeam" }
RequestSenders == { None, Some(ALICE_POLKADOT) }

Requests ==
    { TransferRequest([amount |-> a, recipient |-> r, network |-> n,
                       asset |-> IF n \in DOMAIN NetworkTable
                                 THEN NetworkTable[n].symbol ELSE "GLMR",
                       sender_address |-> s]).value :
        a \in RequestAmounts, r \in RequestRecipients, n \in RequestNetworks,
        s \in RequestSenders }

\* what the chain answers when the request makes _get_balance query it
NotQueried == [kind |-> "not queried", free |-> 0, reserved |-> 0, frozen |-> 0]
QueriesFor(request) == IF queries_chain(request) THEN QueryOutcomes ELSE { NotQueried }
QueriesOf(parsed, context) ==
    IF parsed = None \/ context.kind = "other" THEN { NotQueried }
    ELSE QueriesFor(merge_sender(parsed[1], context).value)

(***************************************************************************)
(* Actions.                                                                *)
(***************************************************************************)
Init ==
    /\ SUBSTRATE_AVAILABLE \in BOOLEAN
    /\ networks = NetworkTable
    /\ substrate_interfaces = { }
    /\ pc = "created"
    /\ call = None

\* lines 83-100: each network is tried in turn; a failed connection is
\* logged and leaves the network without a handle
initialize(connected) ==
    IF SUBSTRATE_AVAILABLE THEN connected ELSE { }

Initialize ==
    /\ pc = "created"
    /\ \E connected \in SUBSET DOMAIN networks :
           substrate_interfaces' = substrate_interfaces \cup initialize(connected)
    /\ pc' = "ready"
    /\ UNCHANGED << SUBSTRATE_AVAILABLE, networks, call >>

\* process_message(message, context), as main and handle_message call it
\* (these two pass no context)
ProcessMessage ==
    /\ pc = "ready"
    /\ call = None
    /\ \E message \in AgentMessages, context \in Contexts :
         \E query \in QueriesOf(parse_transfer_request(message), context) :
             call' = Some([op |-> "process_message", message |-> message,
                           context |-> context, query |-> query]
                          @@ process_message(message, context, query))
    /\ UNCHANGED << SUBSTRATE_AVAILABLE, networks, substrate_interfaces, pc >>

\* a variant of HandleTransferRequest that connects the request's network
\* when it has no handle
HandleTransferRequest_reconnecting ==
    /\ pc = "ready"
    /\ call = None
    /\ \E msg \in Requests :
         \E query \in QueriesFor(msg) :
             /\ call' = Some([op |-> "handle_transfer_request", request |-> msg,
                              query |-> query]
                             @@ prepare_transfer(msg, query))
             /\ substrate_interfaces' =
                    substrate_interfaces \cup ({ msg.network } \cap DOMAIN networks)
    /\ UNCHANGED << SUBSTRATE_AVAILABLE, networks, pc >>

\* lines 311-314: the response is sent, unless prepare_transfer raises
HandleTransferRequest ==
    /\ pc = "ready"
    /\ call = None
    /\ \E msg \in Requests :
         \E query \in QueriesFor(msg) :
             call' = Some([op |-> "handle_transfer_request", request |-> msg,
                           query |-> query]
                          @@ prepare_transfer(msg, query))
    /\ UNCHANGED << SUBSTRATE_AVAILABLE, networks, substrate_interfaces, pc >>

\* the caller takes the result
Complete ==
    /\ call # None
    /\ call' = None
    /\ UNCHANGED << SUBSTRATE_AVAILABLE, networks, substrate_interfaces, pc >>

Next == Initialize \/ ProcessMessage \/ HandleTransferRequest \/ Complete

Spec == Init /\ [][Next]_vars

(***************************************************************************)
(* parse_transfer_request alone: a message is drawn, then parsed.          *)
(***************************************************************************)
InitParse ==
    /\ SUBSTRATE_AVAILABLE = FALSE
    /\ networks = NetworkTable
    /\ substrate_interfaces = { }
    /\ pc = "parse"
    /\ \E message \in Messages :
           call = Some([op |-> "parse_transfer_request", message |-> message,
                        done |-> FALSE, result |-> None])

Parse ==
    /\ pc = "parse"
    /\ ~call[1].done
    /\ call' = Some([call[1] EXCEPT !.done = TRUE,
                                    !.result = parse_transfer_request(call[1].message)])
    /\ UNCHANGED << SUBSTRATE_AVAILABLE, networks, substrate_interfaces, pc >>

SpecParse == InitParse /\ [][Parse]_vars

(***************************************************************************)
(* The amount conversion of line 169 alone: an amount written as a decimal *)
(* and a network are drawn, then the amount is converted.  The fraction is *)
(* up to MaxZeros zeros followed by up to MaxFrac digits.                  *)
(***************************************************************************)
MaxZeros == 11
MaxFrac == 2

IntegerParts == { <<"0">>, <<"5">>, <<"1","2">> }
FractionDigits == { "0", "1", "4", "9" }
Fractions ==
    { [ i \in 1..k |-> "0" ] \o tail :
        k \in 0..MaxZeros, tail \in SeqsUpTo(FractionDigits, MaxFrac) \ { << >> } }
DecimalAmounts ==
    IntegerParts \cup { i \o << "." >> \o f : i \in IntegerParts, f \in Fractions }

InitConvert ==
    /\ SUBSTRATE_AVAILABLE = FALSE
    /\ networks = NetworkTable
    /\ substrate_interfaces = { }
    /\ pc = "convert"
    /\ \E amount \in DecimalAmounts, network \in DOMAIN NetworkTable :
           call = Some([op |-> "amount_to_planck", amount |-> amount,
                        network |-> network, done |-> FALSE,
                        result |-> Raise("", "")])

Convert ==
    /\ pc = "convert"
    /\ ~call[1].done
    /\ call' = Some([call[1] EXCEPT
                       !.done = TRUE,
                       !.result = amount_to_planck(call[1].amount,
                                                   networks[call[1].network].decimals)])
    /\ UNCHANGED << SUBSTRATE_AVAILABLE, networks, substrate_interfaces, pc >>

SpecConvert == InitConvert /\ [][Convert]_vars

(***************************************************************************)
(* Properties.                                                             *)
(***************************************************************************)
ProcessCall == call # None /\ call[1].op = "process_message"
RequestCall == call # None /\ call[1].op = "handle_transfer_request"
ParseCall == call # None /\ call[1].op = "parse_transfer_request" /\ call[1].done
ConvertCall == call # None /\ call[1].op = "amount_to_planck" /\ call[1].done

TryAgain == Text("I encountered an error processing your request. Please try again.", << >>)
MissingMessage == "__init__() missing required positional argument"

W_Send == <<"S","e","n","d">>
W_to == <<"t","o">>
SendFiveDotToAlice == join(<< W_Send, <<"5">>, <<"D","O","T">>, W_to, <<"A","l","i","c","e">> >>)

\* C1: process_message("Send 5 DOT to Alice") with no context parses to
\* amount "5", Alice's address, DOT on polkadot, and returns a successful
\* envelope whose descriptor carries the value 5 * 10^10, whether or not the
\* chain library validates the address.
C1_SendFiveDotToAlice ==
    (ProcessCall /\ call[1].message = SendFiveDotToAlice /\ call[1].context = NoContext)
    => /\ call[1].request # None
       /\ call[1].request[1].amount = << "5" >>
       /\ call[1].request[1].recipient = ALICE
       /\ call[1].request[1].asset = "DOT"
       /\ call[1].request[1].network = "polkadot"
       /\ call[1].envelope.success
       /\ call[1].envelope.transaction_data # None
       /\ call[1].envelope.transaction_data[1].args.value
            = [neg |-> FALSE, mag |-> BigMulPow10(<< 5 >>, 10)]

\* C2: a request for a network outside the networks table makes
\* prepare_transfer return a response with success false and an
\* "Unsupported network" error; prepare_transfer does not raise.
C2_UnsupportedNetworkFails ==
    (RequestCall /\ call[1].request.network \notin DOMAIN networks)
    => /\ ~call[1].raised
       /\ ~call[1].value.success
       /\ call[1].value.error # None
       /\ call[1].value.error[1].fmt = "Unsupported network: {}"

\* C3: a request on a supported network whose recipient fails validation
\* makes prepare_transfer return a failure response without a descriptor,
\* whatever the amount.
C3_InvalidRecipientFails ==
    (/\ RequestCall
     /\ call[1].request.network \in DOMAIN networks
     /\ ~validate_address(call[1].request.recipient,
                          networks[call[1].request.network].ss58_format))
    => /\ ~call[1].raised
       /\ ~call[1].value.success
       /\ call[1].value.error # None
       /\ call[1].value.transaction_data = None

\* C4: when merging the sender or prepare_transfer raises, process_message
\* returns the envelope with success false, the try-again message and the
\* text of the exception as its error.
C4_FailuresBecomeEnvelope ==
    ProcessCall =>
        /\ (call[1].request # None /\ call[1].context.kind = "other")
           => call[1].envelope =
                [ success |-> FALSE, message |-> TryAgain,
                  error |-> Some(Text(merge_sender(call[1].request[1],
                                                   call[1].context).exc.text, << >>)),
                  agent_id |-> agent_id ]
        /\ (call[1].prepared # None /\ call[1].prepared[1].raised)
           => call[1].envelope =
                [ success |-> FALSE, message |-> TryAgain,
                  error |-> Some(Text(call[1].prepared[1].exc.text, << >>)),
                  agent_id |-> agent_id ]

\* prepare_transfer raised and the envelope carries the text of its exception
C4_Witness ==
    /\ ProcessCall
    /\ call[1].prepared # None
    /\ call[1].prepared[1].raised
    /\ call[1].envelope.error = Some(Text(MissingMessage, << >>))
    /\ call[1].envelope.message = TryAgain

\* C5: every envelope process_message returns has the fields success,
\* message, requires_signature and agent_id, with the agent's id.
C5_EnvelopeFields ==
    ProcessCall =>
        /\ { "success", "message", "requires_signature", "agent_id" }
              \subseteq DOMAIN call[1].envelope
        /\ call[1].envelope.agent_id = agent_id

amount_among(words) == \E i \in 1..Len(words) : is_amount_word(words[i])
address_among(words) == \E i \in 1..Len(words) : is_address_word(words[i])
alias_within(message_lower) ==
    \E i \in 1..Len(aliases) : contains(message_lower, aliases[i].alias)
amount_found(message) == amount_among(split(message))
recipient_found(message) == address_among(split(message)) \/ alias_within(lower(message))

\* C6: a request is parsed exactly when an amount word and a recipient
\* (an address word or an alias) are in the message; without a request
\* process_message answers success false with the suggestions, does not
\* call prepare_transfer and reports no error.
C6_NoRequestMeansSuggestions ==
    ProcessCall =>
        /\ call[1].request # None
             <=> (amount_found(call[1].message) /\ recipient_found(call[1].message))
        /\ call[1].request = None
             => /\ ~call[1].envelope.success
                /\ "suggestions" \in DOMAIN call[1].envelope
                /\ call[1].envelope.suggestions =
                     << "Send 5 DOT to Alice",
                        "Transfer 10 DOT to 5GrwvaEF5zXb26Fz9rcQpDWS57CtERHpNehXCPcNoHGKutQY",
                        "Send 2.5 KSM to Bob" >>
                /\ call[1].prepared = None
                /\ "error" \notin DOMAIN call[1].envelope
                /\ call[1].envelope.message # TryAgain

\* an amount but no recipient: no request, the suggestions are returned
C6_Witness ==
    /\ ProcessCall
    /\ amount_found(call[1].message)
    /\ ~recipient_found(call[1].message)
    /\ call[1].request = None
    /\ "suggestions" \in DOMAIN call[1].envelope

PlainDecimals == { <<"5">>, <<"2",".","5">>, <<"0",".","4","1">> }
AssetForms ==
    { [word |-> <<"D","O","T">>, asset |-> "DOT", network |-> "polkadot"],
      [word |-> <<"K","S","M">>, asset |-> "KSM", network |-> "kusama"],
      [word |-> <<"W","N","D">>, asset |-> "WND", network |-> "westend"] }
AliasForms ==
    { [word |-> <<"A","l","i","c","e">>, address |-> ALICE],
      [word |-> <<"B","o","b">>, address |-> BOB],
      [word |-> <<"C","h","a","r","l","i","e">>, address |-> CHARLIE] }
SendForm(x, asset, alias, lettering) ==
    lettered(join(<< W_Send, x, asset.word, W_to, alias.word >>), lettering)

\* C7: "send X ASSET to ALIAS", in any letter case, parses to the amount X,
\* the address of ALIAS, ASSET and the network of ASSET.
C7_SendFormParses ==
    ParseCall =>
        \A x \in PlainDecimals, asset \in AssetForms, alias \in AliasForms,
           lettering \in Letterings :
            call[1].message = SendForm(x, asset, alias, lettering)
            => /\ call[1].result # None
               /\ call[1].result[1].amount = x
               /\ call[1].result[1].recipient = alias.address
               /\ call[1].result[1].asset = asset.asset
               /\ call[1].result[1].network = asset.network

\* "SEND 2.5 KSM TO BOB" parsed
C7_Witness ==
    /\ ParseCall
    /\ call[1].message = upper(join(<< W_Send, <<"2",".","5">>, <<"K","S","M">>, W_to, <<"B","o","b">> >>))
    /\ call[1].result # None
    /\ call[1].result[1].recipient = BOB
    /\ call[1].result[1].network = "kusama"

fraction_digits(amount) == Len(amount) - Min(point_at(amount), Len(amount))

\* C8: for a supported network and a non-negative decimal amount with at
\* most `decimals` fractional digits, the base-unit value is exactly
\* amount * 10^decimals.
C8_ConversionExact ==
    (ConvertCall
     /\ fraction_digits(call[1].amount) <= networks[call[1].network].decimals)
    => /\ ~call[1].result.raised
       /\ call[1].result.value =
            [neg |-> FALSE,
             mag |-> BigMulPow10(BigNorm(BigOfDigits(remove(call[1].amount, "."), << >>)),
                                 networks[call[1].network].decimals
                                   - fraction_digits(call[1].amount))]

\* the request given to prepare_transfer by the completed call, and what
\* prepare_transfer did
Prepared == (RequestCall \/ (ProcessCall /\ call[1].prepared # None))
PreparedRequest == IF RequestCall THEN call[1].request ELSE call[1].request[1]
PreparedOutcome ==
    IF RequestCall
    THEN [ f \in DOMAIN call[1] \ { "op", "request", "query" } |-> call[1][f] ]
    ELSE call[1].prepared[1]

\* C9: when the request carries a sender and the balance is unavailable or
\* its lookup fails, prepare_transfer answers as it does for the same
\* request without a sender: a request that is otherwise valid still gets
\* success true and the same descriptor.
C9_BalanceFailureHarmless ==
    (Prepared /\ truthy(PreparedRequest.sender_address)
              /\ PreparedOutcome.balance_info = None)
    => LET base == prepare_transfer([PreparedRequest EXCEPT !.sender_address = None],
                                    NotQueried)
       IN  (~base.raised /\ base.value.success)
           => /\ ~PreparedOutcome.raised
              /\ PreparedOutcome.value.success
              /\ PreparedOutcome.value.transaction_data # None
              /\ PreparedOutcome.value = base.value

\* the chain was queried, the query raised, and the transfer was prepared
C9_Witness ==
    /\ RequestCall
    /\ truthy(call[1].request.sender_address)
    /\ call[1].query.kind = "raises"
    /\ ~call[1].raised
    /\ call[1].value.success
    /\ call[1].value.transaction_data # None

together(a, b, c) == (a /\ b /\ c) \/ (~a /\ ~b /\ ~c)

\* C10: in every response of prepare_transfer and every envelope of
\* process_message, success, requires_signature and the presence of
\* transaction_data hold together or not at all.
C10_SuccessSignatureDescriptor ==
    /\ (Prepared /\ ~PreparedOutcome.raised)
       => together(PreparedOutcome.value.success,
                   PreparedOutcome.value.requires_signature,
                   PreparedOutcome.value.transaction_data # None)
    /\ ProcessCall
       => together(call[1].envelope.success,
                   /\ "requires_signature" \in DOMAIN call[1].envelope
                   /\ call[1].envelope.requires_signature,
                   /\ "transaction_data" \in DOMAIN call[1].envelope
                   /\ call[1].envelope.transaction_data # None)

\* a prepared transfer: success, signature required, descriptor present
C10_Witness ==
    /\ ProcessCall
    /\ call[1].envelope.success
    /\ call[1].envelope.requires_signature
    /\ call[1].envelope.transaction_data # None

\* C11: every descriptor prepare_transfer produces, also for a request handed
\* to it directly with an arbitrary amount string, has a recipient that
\* validates for the network, comes from an amount that parses as a
\* non-negative decimal, and has args.value >= 0.
C11_DescriptorOnlyForValidRequests ==
    (/\ Prepared
     /\ ~PreparedOutcome.raised
     /\ PreparedOutcome.value.transaction_data # None)
    => /\ PreparedRequest.network \in DOMAIN networks
       /\ validate_address(PreparedOutcome.value.transaction_data[1].args.dest.Id,
                           networks[PreparedRequest.network].ss58_format)
       /\ ~python_float(PreparedRequest.amount).raised
       /\ python_float(PreparedRequest.amount).value.kind = "finite"
       /\ ~python_float(PreparedRequest.amount).value.neg
       /\ ~PreparedOutcome.value.transaction_data[1].args.value.neg

\* a token of digits and separators whose content is a number
is_number_word(word) ==
    is_amount_word(word) /\ ~python_float(remove(word, ",")).raised
amount_is_first_number(words, amount) ==
    \E i \in 1..Len(words) :
        /\ is_number_word(words[i])
        /\ remove(words[i], ",") = amount
        /\ \A j \in 1..(i - 1) : ~is_number_word(words[j])

\* C12: whenever parse_transfer_request returns a request, its amount parses
\* as a non-negative number (a token of digits and separators that is no
\* number, such as one with two decimal points, is not taken), and it is the
\* first such token of the message.
C12_AmountIsFirstNumber ==
    (ParseCall /\ call[1].result # None)
    => /\ ~python_float(call[1].result[1].amount).raised
       /\ python_float(call[1].result[1].amount).value.kind = "finite"
       /\ ~python_float(call[1].result[1].amount).value.neg
       /\ amount_is_first_number(split(call[1].message), call[1].result[1].amount)

first_alias_is(message_lower, recipient) ==
    \E i \in 1..Len(aliases) :
        /\ contains(message_lower, aliases[i].alias)
        /\ \A j \in 1..(i - 1) : ~contains(message_lower, aliases[j].alias)
        /\ recipient = aliases[i].address
first_address_is(words, recipient) ==
    \E i \in 1..Len(words) :
        /\ is_address_word(words[i])
        /\ \A j \in 1..(i - 1) : ~is_address_word(words[j])
        /\ recipient = words[i]

\* C13: the recipient of a parsed request is the address of the alias found
\* in the message whenever there is one, also when a literal address token is
\* present; with no alias it is the first literal address token.
C13_AliasOverridesAddress ==
    (ParseCall /\ call[1].result # None)
    => /\ alias_within(lower(call[1].message))
          => first_alias_is(lower(call[1].message), call[1].result[1].recipient)
       /\ (~alias_within(lower(call[1].message)) /\ address_among(split(call[1].message)))
          => first_address_is(split(call[1].message), call[1].result[1].recipient)

\* a literal address and the alias bob in one message: bob's address wins
C13_Witness ==
    /\ ParseCall
    /\ call[1].result # None
    /\ address_among(split(call[1].message))
    /\ \E i \in 1..Len(split(call[1].message)) : split(call[1].message)[i] = ALICE
    /\ contains(lower(call[1].message), <<"b","o","b">>)
    /\ call[1].result[1].recipient = BOB

\* only a literal address: it is the recipient
C13_WitnessAddressOnly ==
    /\ ParseCall
    /\ call[1].result # None
    /\ ~alias_within(lower(call[1].message))
    /\ \E i \in 1..Len(split(call[1].message)) : split(call[1].message)[i] = CHARLIE
    /\ call[1].result[1].recipient = ALICE

\* the balance lookup of a completed call on a network without a handle
\* reported nothing
UnconnectedStaysUnavailable ==
    (/\ Prepared
     /\ truthy(PreparedRequest.sender_address)
     /\ PreparedRequest.network \notin substrate_interfaces)
    => PreparedOutcome.balance_info = None

\* a step that changes the handle table is the step of initialize, and no
\* step changes the networks table
HandlesWrittenByInitialize ==
    /\ substrate_interfaces' # substrate_interfaces => (pc = "created" /\ pc' = "ready")
    /\ networks' = networks

\* C14: the handle table is written only by initialize and the networks
\* table never: after initialize no call changes them, so a network whose
\* connection failed keeps no handle and its balance lookup reports nothing.
C14_HandlesWrittenOnlyByInitialize ==
    [](UnconnectedStaysUnavailable) /\ [][HandlesWrittenByInitialize]_vars

\* one network failed to connect while another connected, and a later
\* request with a sender on the failed network was prepared without balance
C14_Witness ==
    /\ RequestCall
    /\ SUBSTRATE_AVAILABLE
    /\ substrate_interfaces # { }
    /\ call[1].request.network \in DOMAIN networks \ substrate_interfaces
    /\ truthy(call[1].request.sender_address)
    /\ call[1].balance_info = None
    /\ ~call[1].raised
    /\ call[1].value.success

=============================================================================
